---- MODULE Spec2Model ----
(***************************************************************************)
(* Model of the admissions-intake server (server/src/main.rs): the         *)
(* form_data table, the four request handlers submit_form, login,          *)
(* get_applicants and update_applicant_status, and the pure helpers        *)
(* calculate_age and calculate_eligibility.                                *)
(*                                                                         *)
(* Conventions.  Option<T> is a sequence of length at most one: None is    *)
(* <<>> and Some(x) is <<x>>.  A gpa is held in hundredths (3.2 is 320).   *)
(* A date is a triple <<year, month, day>>; a dob string is the triple of  *)
(* the numbers between its dashes, or <<>> for text that has no such       *)
(* shape.  A bcrypt hash is the pair of its salt and the digest of the     *)
(* plaintext under that salt.                                              *)
(***************************************************************************)
EXTENDS Integers, Sequences, FiniteSets, TLC

VARIABLES
    store,   \* the rows of form_data, in rowid order
    submitted, \* history: per stored row, the form and date it was built from
    req,     \* the request (or call) most recently handled
    fault,   \* what failed underneath that request: "none", "hash" or "db"
    resp     \* the response (or result) it was given

vars == <<store, submitted, req, fault, resp>>

(***************************************************************************)
(* Bounds of the model.                                                    *)
(***************************************************************************)
\* most rows the form_data table grows to
MaxRows == 2
\* number of distinct bcrypt salts the generator can produce
NumSalts == 1

\* the requests a run of the concurrent server takes
NumTasks == 3

(***************************************************************************)
(* Option<T>                                                               *)
(***************************************************************************)
None == <<>>

Some(x) == <<x>>

unwrap_or(o, d) == IF o = None THEN d ELSE o[1]

\* an unwrap that puts a placeholder text in the place of an absent String
unwrap_or_placeholder(o) == unwrap_or(o, "none")

\* Option<String>::unwrap_or_default: the default String is empty
unwrap_or_default(o) == unwrap_or(o, "")

(***************************************************************************)
(* Eligibility Engine                                                      *)
(***************************************************************************)
\* thresholds of calculate_eligibility; the gpa one in hundredths
GpaThreshold == 320
CreditThreshold == 12
AgeThreshold == 23

IsLeap(y) == (y % 4 = 0 /\ y % 100 # 0) \/ y % 400 = 0

DaysInMonth(y, m) ==
    IF m = 2 THEN (IF IsLeap(y) THEN 29 ELSE 28)
    ELSE IF m \in {4, 6, 9, 11} THEN 30 ELSE 31

\* NaiveDate::parse_from_str(dob, "%Y-%m-%d"): Some(date) when the text has
\* the three numeric fields and they name a day of the calendar
parse_from_str(dob) ==
    IF Len(dob) = 3 /\ dob[2] \in 1..12 /\ dob[3] >= 1
       /\ dob[3] <= DaysInMonth(dob[1], dob[2])
    THEN Some(dob) ELSE None

\* a calculate_age that still takes the year off on the birthday itself
calculate_age_birthday_late(dob, current_date) ==
    LET parsed == parse_from_str(dob) IN
    IF parsed # None
    THEN LET birth_date == parsed[1]
             age == current_date[1] - birth_date[1]
         IN IF current_date[2] < birth_date[2]
               \/ (current_date[2] = birth_date[2] /\ current_date[3] <= birth_date[3])
            THEN Some(age - 1)
            ELSE Some(age)
    ELSE None

calculate_age(dob, current_date) ==
    LET parsed == parse_from_str(dob) IN
    IF parsed # None
    THEN LET birth_date == parsed[1]
             age == current_date[1] - birth_date[1]
         IN IF current_date[2] < birth_date[2]
               \/ (current_date[2] = birth_date[2] /\ current_date[3] < birth_date[3])
            THEN Some(age - 1)
            ELSE Some(age)
    ELSE None

\* an engine whose gpa threshold is exclusive: gpa < 3.2
calculate_eligibility_strict_gpa(gpa, credit_hours, age) ==
    IF gpa < 320 \/ credit_hours <= 12 \/ age <= 23 THEN 1 ELSE 0

calculate_eligibility(gpa, credit_hours, age) ==
    IF gpa <= GpaThreshold \/ credit_hours <= CreditThreshold \/ age <= AgeThreshold
    THEN 1
    ELSE 0

(***************************************************************************)
(* Credential Manager (bcrypt)                                             *)
(***************************************************************************)
Salts == 1..NumSalts

\* Result<T, E>
Ok(x) == [ok |-> TRUE, val |-> x]

Err == [ok |-> FALSE, val |-> FALSE]

\* the "$2b$<cost>$<salt><digest>" string bcrypt::hash builds
hash(password, salt) == [scheme |-> "2b", salt |-> salt, digest |-> <<salt, password>>]

\* bcrypt::verify: an error when the stored text is not a bcrypt hash,
\* otherwise whether the candidate's digest under the stored salt is the
\* stored one
verify(password, hashed) ==
    IF hashed.scheme # "2b" THEN Err
    ELSE Ok(hash(password, hashed.salt) = hashed)

\* the password column holding a text as it was received, unhashed
PlainText(password) == [scheme |-> "plain", salt |-> 0, digest |-> password]

(***************************************************************************)
(* Request payloads                                                        *)
(***************************************************************************)
StudentIds == {"S1", "S2"}

Emails == {"ann@x", "bob@x"}

\* passwords a form is submitted with, and passwords a login is tried with
Passwords == {None, Some("pw")}

LoginPasswords == {None, Some(""), Some("pw")}

\* 2000-01-15, and text that is not a date
Dobs == {<<2000, 1, 15>>, <<>>}

\* the values Utc::now() takes: the day the 2000-01-15 applicant turns 24
Dates == {<<2024, 1, 15>>}

\* FormData
Forms ==
    [first_name : {"Ann"}, last_name : {"Lee"}, student_id : StudentIds,
     gender : {"F"}, dob : Dobs, college_year : {"Junior"},
     total_credits : {13}, phone_number : {"555"}, email : Emails,
     password : Passwords, role : {1}, gpa : {330}]

(***************************************************************************)
(* Applicant Store: the form_data table, rows in rowid order               *)
(***************************************************************************)
\* a schema whose only UNIQUE constraint is the one on email
ConstraintViolationEmailOnly(rows, row) ==
    \E i \in 1..Len(rows) : rows[i].email = row.email

\* the schema's UNIQUE constraints on student_id and on email
ConstraintViolation(rows, row) ==
    \E i \in 1..Len(rows) :
        rows[i].student_id = row.student_id \/ rows[i].email = row.email

\* INSERT OR REPLACE: the rows the new one conflicts with are deleted first
InsertOrReplace(rows, row) ==
    Ok(Append(SelectSeq(rows, LAMBDA r : ~ConstraintViolation(<<r>>, row)), row))

\* INSERT INTO form_data (...) VALUES (...): the table after it, or the
\* error of a violated constraint
Insert(rows, row) ==
    IF ConstraintViolation(rows, row) THEN Err ELSE Ok(Append(rows, row))

\* sqlite's last_insert_rowid() after the insert
last_insert_rowid(rows) == Len(rows)

\* an UPDATE that toggles: SET status = CASE status WHEN 2 THEN 0 ELSE 2 END
SetAcceptedToggle(rows, student_id) ==
    [i \in 1..Len(rows) |->
        IF rows[i].student_id = student_id
        THEN [rows[i] EXCEPT !.status = IF @ = 2 THEN 0 ELSE 2]
        ELSE rows[i]]

\* an UPDATE that accepts eligible applicants only: ... AND status = 0
SetAcceptedOnlyEligible(rows, student_id) ==
    [i \in 1..Len(rows) |->
        IF rows[i].student_id = student_id /\ rows[i].status = 0
        THEN [rows[i] EXCEPT !.status = 2]
        ELSE rows[i]]

\* an UPDATE that lost its WHERE clause
SetAcceptedAllRows(rows, student_id) ==
    [i \in 1..Len(rows) |-> [rows[i] EXCEPT !.status = 2]]

\* an UPDATE that also promotes the applicant: SET status = 2, role = 2
SetAcceptedAndRole(rows, student_id) ==
    [i \in 1..Len(rows) |->
        IF rows[i].student_id = student_id
        THEN [rows[i] EXCEPT !.status = 2, !.role = 2]
        ELSE rows[i]]

\* UPDATE form_data SET status = 2 WHERE student_id = ?
SetAccepted(rows, student_id) ==
    [i \in 1..Len(rows) |->
        IF rows[i].student_id = student_id
        THEN [rows[i] EXCEPT !.status = 2]
        ELSE rows[i]]

\* a SELECT that lost its WHERE clause: fetch_optional gives the first row
FindByEmailNoWhere(rows, email) ==
    IF rows = <<>> THEN None
    ELSE Some([email |-> rows[1].email, password |-> rows[1].password,
               status |-> rows[1].status, role |-> rows[1].role])

\* a SELECT whose status and role columns are read in the wrong order
FindByEmailColumnsSwapped(rows, email) ==
    LET hits == {i \in 1..Len(rows) : rows[i].email = email} IN
    IF hits = {} THEN None
    ELSE LET first == CHOOSE i \in hits : \A j \in hits : i <= j IN
         Some([email |-> rows[first].email, password |-> rows[first].password,
               status |-> rows[first].role, role |-> rows[first].status])

\* SELECT email, password, status, role FROM form_data WHERE email = ?
\* with fetch_optional: the first matching row in rowid order, if any
FindByEmail(rows, email) ==
    LET hits == {i \in 1..Len(rows) : rows[i].email = email} IN
    IF hits = {} THEN None
    ELSE LET first == CHOOSE i \in hits : \A j \in hits : i <= j IN
         Some([email |-> rows[first].email, password |-> rows[first].password,
               status |-> rows[first].status, role |-> rows[first].role])

\* the Response struct: every column but password
ToResponse(row) ==
    [first_name |-> row.first_name, last_name |-> row.last_name,
     student_id |-> row.student_id, gender |-> row.gender, dob |-> row.dob,
     college_year |-> row.college_year, total_credits |-> row.total_credits,
     phone_number |-> row.phone_number, email |-> row.email,
     role |-> row.role, status |-> row.status, gpa |-> row.gpa]

\* a SELECT that lists pending applicants only: ... WHERE status != 2
ListAllPending(rows) ==
    LET pending == SelectSeq(rows, LAMBDA r : r.status # 2) IN
    [i \in 1..Len(pending) |-> ToResponse(pending[i])]

\* SELECT first_name, ..., gpa FROM form_data
ListAll(rows) == [i \in 1..Len(rows) |-> ToResponse(rows[i])]

(***************************************************************************)
(* Responses: the HTTP status code, and the "status", "message" and        *)
(* payload ("data_id", "user" or "data") members of the JSON body          *)
(***************************************************************************)
NoData == <<>>

Reply(code, status, message, data) ==
    [code |-> code, status |-> status, message |-> message, data |-> data]

HashFailed == Reply(500, "error", "Failed to process form due to a server error", NoData)

SubmitFailed == Reply(500, "error", "Failed to submit form. Please try again later.", NoData)

SubmitOk(data_id) == Reply(200, "success", "Form submitted successfully", data_id)

Unauthorized == Reply(401, "error", "Invalid email or password", NoData)

LoginError == Reply(500, "error", "Internal server error", NoData)

LoginOk(user) == Reply(200, "success", "Login successful", user)

\* a login that serializes the whole selected row
UserDataWholeRow(user) ==
    [email |-> user.email, password |-> user.password,
     status |-> user.status, role |-> user.role]

\* the UserData struct
UserData(user) == [email |-> user.email, status |-> user.status, role |-> user.role]

\* the list's body has no "message" member
ListOk(applicants) == Reply(200, "success", "", applicants)

ListFailed == Reply(500, "error", "Failed to fetch applicants. Please try again later.", NoData)

AcceptOk == Reply(200, "success", "Applicant status updated to accepted", NoData)

AcceptFailed == Reply(500, "error", "Failed to update applicant status. Please try again later.", NoData)

(***************************************************************************)
(* Handlers                                                                *)
(***************************************************************************)
NoRequest == [op |-> "none"]

NoResponse == Reply(0, "", "", NoData)

\* an INSERT that binds the caller's role to the status column
NewRowRoleAsStatus(form_data, eligibility_status) ==
    [first_name |-> form_data.first_name, last_name |-> form_data.last_name,
     student_id |-> form_data.student_id, gender |-> form_data.gender,
     dob |-> form_data.dob, college_year |-> form_data.college_year,
     total_credits |-> form_data.total_credits,
     phone_number |-> form_data.phone_number, email |-> form_data.email,
     password |-> form_data.password, status |-> form_data.role,
     role |-> form_data.role, gpa |-> form_data.gpa]

\* the thirteen values bound to the INSERT's columns
NewRow(form_data, eligibility_status) ==
    [first_name |-> form_data.first_name, last_name |-> form_data.last_name,
     student_id |-> form_data.student_id, gender |-> form_data.gender,
     dob |-> form_data.dob, college_year |-> form_data.college_year,
     total_credits |-> form_data.total_credits,
     phone_number |-> form_data.phone_number, email |-> form_data.email,
     password |-> form_data.password, status |-> eligibility_status,
     role |-> form_data.role, gpa |-> form_data.gpa]

\* a submit_form that passes age and credits to the engine in the wrong order
BuildRowSwapped(form, salt, current_date) ==
    LET hashed_password == hash(unwrap_or_default(form.password), salt)
        form_data == [form EXCEPT !.password = Some(hashed_password)]
        age == unwrap_or(calculate_age(form_data.dob, current_date), 0)
        eligibility_status ==
            calculate_eligibility(form_data.gpa, age, form_data.total_credits)
    IN [first_name |-> form_data.first_name, last_name |-> form_data.last_name,
        student_id |-> form_data.student_id, gender |-> form_data.gender,
        dob |-> form_data.dob, college_year |-> form_data.college_year,
        total_credits |-> form_data.total_credits,
        phone_number |-> form_data.phone_number, email |-> form_data.email,
        password |-> form_data.password, status |-> eligibility_status,
        role |-> form_data.role, gpa |-> form_data.gpa]

\* a submit_form that binds the password as received and drops the hash
BuildRowPlaintext(form, salt, current_date) ==
    LET hashed_password == hash(unwrap_or_default(form.password), salt)
        form_data ==
            [form EXCEPT !.password = Some(PlainText(unwrap_or_default(form.password)))]
        age == unwrap_or(calculate_age(form_data.dob, current_date), 0)
        eligibility_status ==
            calculate_eligibility(form_data.gpa, form_data.total_credits, age)
    IN NewRow(form_data, eligibility_status)

\* a submit_form that stores a form whose dob did not parse as Eligible
BuildRowUnparsedEligible(form, salt, current_date) ==
    LET hashed_password == hash(unwrap_or_default(form.password), salt)
        form_data == [form EXCEPT !.password = Some(hashed_password)]
        age == calculate_age(form_data.dob, current_date)
        eligibility_status ==
            IF age = None THEN 0
            ELSE calculate_eligibility(form_data.gpa, form_data.total_credits,
                                       age[1])
    IN NewRow(form_data, eligibility_status)

\* the row submit_form builds from a form, a fresh salt and the date
BuildRow(form, salt, current_date) ==
    LET hashed_password == hash(unwrap_or_default(form.password), salt)
        form_data == [form EXCEPT !.password = Some(hashed_password)]
        age == unwrap_or(calculate_age(form_data.dob, current_date), 0)
        eligibility_status ==
            calculate_eligibility(form_data.gpa, form_data.total_credits, age)
    IN NewRow(form_data, eligibility_status)

\* POST /submit.  f is what fails underneath: "hash" (bcrypt), "db" (the
\* store cannot be reached) or "none"
submit_form(form, salt, current_date, f) ==
    LET row == BuildRow(form, salt, current_date)
        result == Insert(store, row)
        insert_fails == f = "db" \/ ~result.ok
    IN /\ Len(store) < MaxRows \/ f = "hash" \/ insert_fails
       /\ req' = [op |-> "submit", student_id |-> form.student_id,
                   email |-> form.email]
       /\ fault' = f
       /\ IF f = "hash"
          THEN /\ resp' = HashFailed
               /\ UNCHANGED <<store, submitted>>
          ELSE IF insert_fails
          THEN /\ resp' = SubmitFailed
               /\ UNCHANGED <<store, submitted>>
          ELSE /\ store' = result.val
               /\ resp' = SubmitOk(last_insert_rowid(store'))
               /\ submitted' = Append(submitted, [form |-> form,
                                                  current_date |-> current_date])

\* a login that tells the caller when the email is unknown
LoginReplyNotFound(found, login_password) ==
    IF found = None THEN Reply(404, "error", "User not found", NoData)
    ELSE LET user == found[1] IN
         IF login_password # None /\ user.password # None
         THEN LET checked == verify(login_password[1], user.password[1]) IN
              IF ~checked.ok THEN LoginError
              ELSE IF checked.val THEN LoginOk(UserData(user))
              ELSE Unauthorized
         ELSE Unauthorized

\* the response login gives once the SELECT has returned
LoginReply(found, login_password) ==
    IF found = None THEN Unauthorized
    ELSE LET user == found[1] IN
         IF login_password # None /\ user.password # None
         THEN LET checked == verify(login_password[1], user.password[1]) IN
              IF ~checked.ok THEN LoginError
              ELSE IF checked.val THEN LoginOk(UserData(user))
              ELSE Unauthorized
         ELSE Unauthorized

\* POST /login
login(email, password, f) ==
    /\ req' = [op |-> "login", email |-> email, password |-> password]
    /\ fault' = f
    /\ resp' = IF f = "db" THEN LoginError
               ELSE LoginReply(FindByEmail(store, email), password)
    /\ UNCHANGED <<store, submitted>>

\* GET /applicants
get_applicants(f) ==
    /\ req' = [op |-> "list"]
    /\ fault' = f
    /\ resp' = IF f = "db" THEN ListFailed ELSE ListOk(ListAll(store))
    /\ UNCHANGED <<store, submitted>>

\* POST /applicant/update-status
update_applicant_status(student_id, f) ==
    /\ req' = [op |-> "accept", student_id |-> student_id]
    /\ fault' = f
    /\ IF f = "db"
       THEN /\ resp' = AcceptFailed
            /\ store' = store
       ELSE /\ store' = SetAccepted(store, student_id)
            /\ resp' = AcceptOk
    /\ UNCHANGED submitted

(***************************************************************************)
(* The server on a freshly migrated database                               *)
(***************************************************************************)
Init ==
    /\ store = <<>>
    /\ submitted = <<>>
    /\ req = NoRequest
    /\ fault = "none"
    /\ resp = NoResponse

Submit ==
    \E form \in Forms, salt \in Salts, current_date \in Dates,
       f \in {"none", "hash", "db"} :
        submit_form(form, salt, current_date, f)

Login ==
    \E email \in Emails, password \in LoginPasswords, f \in {"none", "db"} :
        login(email, password, f)

List == \E f \in {"none", "db"} : get_applicants(f)

Accept ==
    \E student_id \in StudentIds, f \in {"none", "db"} :
        update_applicant_status(student_id, f)

Next == Submit \/ Login \/ List \/ Accept

Spec == Init /\ [][Next]_vars

(***************************************************************************)
(* The first submit a server handles, with the form drawn widely.  The     *)
(* database is fresh, or holds one applicant, accepted or not.             *)
(***************************************************************************)
WideDobs == {<<2000, 1, 15>>, <<2000, 1, 16>>, <<2000, 2, 30>>, <<>>}

WideDates == {<<2024, 1, 15>>, <<2025, 1, 15>>}

WideForms ==
    [first_name : {"Ann"}, last_name : {"Lee"}, student_id : StudentIds,
     gender : {"F"}, dob : WideDobs, college_year : {"Junior"},
     total_credits : {12, 13, 24}, phone_number : {"555"}, email : Emails,
     password : Passwords, role : {0, 2}, gpa : {320, 330}]

SeedForm == CHOOSE form \in Forms :
    form.student_id = "S1" /\ form.email = "ann@x" /\ form.dob # <<>>
    /\ form.password # None

SeedDate == CHOOSE d \in Dates : TRUE

SeedStores ==
    {<<>>, <<BuildRow(SeedForm, 1, SeedDate)>>,
     SetAccepted(<<BuildRow(SeedForm, 1, SeedDate)>>, SeedForm.student_id)}

InitIntake ==
    /\ store \in SeedStores
    /\ submitted = [i \in 1..Len(store) |->
                       [form |-> SeedForm, current_date |-> SeedDate]]
    /\ req = NoRequest
    /\ fault = "none"
    /\ resp = NoResponse

FirstSubmit ==
    /\ req = NoRequest
    /\ \E form \in WideForms, salt \in Salts, current_date \in WideDates,
          f \in {"none", "hash", "db"} :
           submit_form(form, salt, current_date, f)

NextIntake == FirstSubmit

SpecIntake == InitIntake /\ [][NextIntake]_vars

(***************************************************************************)
(* calculate_eligibility on its own, over inputs around each threshold     *)
(***************************************************************************)
EligGpas == {319, 320, 321, 330}

EligCredits == {11, 12, 13, 15}

EligAges == {0, 22, 23, 24, 25}

Returned(x) == Reply(0, "returned", "", x)

InitElig ==
    /\ store = <<>>
    /\ submitted = <<>>
    /\ req \in [op : {"calculate_eligibility"}, gpa : EligGpas,
                credit_hours : EligCredits, age : EligAges]
    /\ fault = "none"
    /\ resp = NoResponse

Evaluate ==
    /\ req.op = "calculate_eligibility"
    /\ resp = NoResponse
    /\ resp' = Returned(calculate_eligibility(req.gpa, req.credit_hours, req.age))
    /\ UNCHANGED <<store, submitted, req, fault>>

NextElig == Evaluate

SpecElig == InitElig /\ [][NextElig]_vars

(***************************************************************************)
(* login against a database that other tools have written to: the         *)
(* password column is nullable and may hold text that is no bcrypt hash     *)
(***************************************************************************)
LegacyPasswords ==
    {None, Some(hash("pw", 1)),
     Some([scheme |-> "plain", salt |-> 0, digest |-> "pw"])}

LegacyRow(student_id, email, password) ==
    NewRow([SeedForm EXCEPT !.student_id = student_id, !.email = email,
                            !.password = password], 0)

LegacyRows ==
    {LegacyRow(id, email, password) :
        id \in StudentIds, email \in Emails, password \in LegacyPasswords}

LegacyStores ==
    {<<>>} \cup {<<r>> : r \in LegacyRows}
    \cup {rows \in {<<r1, r2>> : r1 \in LegacyRows, r2 \in LegacyRows} :
              ~ConstraintViolation(<<rows[1]>>, rows[2])}

InitLogin ==
    /\ store \in LegacyStores
    /\ submitted = <<>>
    /\ req = NoRequest
    /\ fault = "none"
    /\ resp = NoResponse

NextLogin == Login

SpecLogin == InitLogin /\ [][NextLogin]_vars

(***************************************************************************)
(* Properties                                                              *)
(***************************************************************************)
Known(rows, student_id) == \E i \in 1..Len(rows) : rows[i].student_id = student_id

\* C1: once a stored row has status 2, every later step, whatever the
\* request and whether it succeeds or fails, leaves that row in place with
\* status 2 and the same student_id.
AcceptedIsFinal ==
    [][\A i \in 1..Len(store) :
          store[i].status = 2 =>
              /\ i <= Len(store')
              /\ store'[i].status = 2
              /\ store'[i].student_id = store[i].student_id]_vars

\* C1 witness: a second form was stored after the first row was accepted,
\* and the first row is still accepted.
AcceptedRowOutlivesSubmit ==
    /\ req.op = "submit" /\ resp.code = 200
    /\ Len(store) = 2 /\ store[1].status = 2

\* C2: right after a successful submit the new row's status is the
\* engine's decision on the form's gpa and total_credits and on the age
\* computed from its dob (0 when the dob does not parse), so it is 0 or 1
\* and never 2.
StatusAtCreation ==
    (req.op = "submit" /\ resp.code = 200) =>
        LET n == Len(store)
            form == submitted[n].form
            age == unwrap_or(calculate_age(form.dob, submitted[n].current_date), 0)
        IN /\ n = Len(submitted)
           /\ store[n].student_id = form.student_id
           /\ store[n].status = calculate_eligibility(form.gpa, form.total_credits, age)
           /\ store[n].status \in {0, 1}

\* C2 witness: a form with gpa 3.3, 13 credits and a 24th birthday today was
\* stored as Eligible next to an applicant who is already accepted.
EligibleAtCreation ==
    /\ req.op = "submit" /\ resp.code = 200
    /\ Len(store) = 2 /\ store[1].status = 2 /\ store[2].status = 0
    /\ submitted[2].form.gpa = 330 /\ submitted[2].form.total_credits = 13
    /\ submitted[2].form.dob = <<2000, 1, 15>>
    /\ submitted[2].current_date = <<2024, 1, 15>>

\* C3: an accept whose UPDATE runs and whose student_id is stored answers
\* with the success response and leaves every row of that id with status 2,
\* whatever the status was; a second accept of the same id right after it
\* changes nothing in the store.
AcceptSetsStatus ==
    [][(req'.op = "accept" /\ fault' = "none" /\ Known(store, req'.student_id)) =>
          /\ resp' = AcceptOk
          /\ Len(store') = Len(store)
          /\ \A i \in 1..Len(store) :
                store[i].student_id = req'.student_id => store'[i].status = 2
          /\ (req.op = "accept" /\ fault = "none"
              /\ req.student_id = req'.student_id) => store' = store]_vars

\* C3 witness: an Ineligible applicant has been accepted.
IneligibleAccepted ==
    /\ req.op = "accept" /\ fault = "none" /\ resp = AcceptOk
    /\ \E i \in 1..Len(store) :
          /\ store[i].student_id = req.student_id
          /\ store[i].status = 2
          /\ submitted[i].form.dob = <<>>

\* C4: an accept whose UPDATE runs and whose student_id matches no row
\* answers with the success response and leaves the table as it was.
AcceptUnknownIsNoOp ==
    [][(req'.op = "accept" /\ fault' = "none" /\ ~Known(store, req'.student_id)) =>
          /\ resp' = AcceptOk
          /\ store' = store]_vars

\* C4 witness: an unknown id was accepted while the table held a row that
\* is not accepted.
UnknownAccepted ==
    /\ req.op = "accept" /\ fault = "none" /\ resp = AcceptOk
    /\ ~Known(store, req.student_id)
    /\ Len(store) = 1 /\ store[1].status # 2

\* C5: no two stored rows have the same student_id.
UniqueStudentId ==
    \A i, j \in 1..Len(store) :
        store[i].student_id = store[j].student_id => i = j

\* C5 witness: a form whose student_id is stored, under an email that is
\* not, was refused and the table still has its one row.
DuplicateIdRefused ==
    /\ req.op = "submit" /\ fault = "none" /\ resp = SubmitFailed
    /\ Len(store) = 1
    /\ store[1].student_id = req.student_id
    /\ store[1].email # req.email

\* the rows a login's SELECT matches
Matching == {i \in 1..Len(store) : store[i].email = req.email}

\* C6: a login whose SELECT runs and that names an unknown email, or brings
\* no password, or brings a wrong one, or meets a row whose stored password
\* is NULL, gets one and the same response: 401, "error", "Invalid email or
\* password", no payload.
LoginFailuresAlike ==
    (/\ req.op = "login"
     /\ fault = "none"
     /\ \/ Matching = {}
        \/ req.password = None
        \/ \E i \in Matching : store[i].password = None
        \/ \E i \in Matching :
              /\ req.password # None
              /\ store[i].password # None
              /\ store[i].password[1].scheme = "2b"
              /\ store[i].password[1].digest
                    # <<store[i].password[1].salt, req.password[1]>>)
    => resp = [code |-> 401, status |-> "error",
               message |-> "Invalid email or password", data |-> <<>>]

\* C6 witness: a login with a password against a row whose stored password
\* is NULL was refused.
NullPasswordRefused ==
    /\ req.op = "login" /\ fault = "none" /\ req.password # None
    /\ \E i \in Matching : store[i].password = None
    /\ resp.code = 401

\* C7: a login whose SELECT runs, with the email and the password of a form
\* this run stored, gets the success response with that row's email, its
\* status as it is now and its role.
CorrectLoginSucceeds ==
    (req.op = "login" /\ fault = "none" /\ req.password # None) =>
        \A i \in 1..Len(submitted) :
            (submitted[i].form.email = req.email
             /\ submitted[i].form.password = req.password) =>
                /\ i <= Len(store)
                /\ resp = [code |-> 200, status |-> "success",
                           message |-> "Login successful",
                           data |-> [email |-> req.email,
                                     status |-> store[i].status,
                                     role |-> submitted[i].form.role]]

\* C7 witness: the applicant of the second row, accepted since, logged in
\* and was told status 2.
AcceptedSecondRowLogsIn ==
    /\ req.op = "login" /\ fault = "none" /\ resp.code = 200
    /\ Len(store) = 2 /\ store[2].email = req.email
    /\ submitted[2].form.password = req.password
    /\ store[1].status # 2 /\ resp.data.status = 2

\* C8: a submit whose hashing fails, or whose INSERT fails because the store
\* cannot be reached or a constraint is violated, answers 500 "error" and
\* leaves the table as it was; and no submit that answers anything but 200
\* changes the table.
FailedSubmitWritesNothing ==
    [][req'.op = "submit" =>
          /\ (\/ fault' \in {"hash", "db"}
              \/ \E i \in 1..Len(store) :
                    \/ store[i].student_id = req'.student_id
                    \/ store[i].email = req'.email)
             => (resp'.code = 500 /\ resp'.status = "error" /\ store' = store)
          /\ resp'.code # 200 => store' = store]_vars

\* C8 witness: a form that conflicts with no row met an unreachable store
\* and was refused, the table keeping its one row.
UnreachableStoreRefused ==
    /\ req.op = "submit" /\ fault = "db" /\ resp = SubmitFailed
    /\ Len(store) = 1
    /\ store[1].student_id # req.student_id
    /\ store[1].email # req.email

\* C9: a login or a list changes no row; a stored row's status changes only
\* in an accept of its student_id, and then to 2; a row appears only in a
\* submit, with the status the engine computes from the form's gpa,
\* total_credits and dob, whatever the form's other fields are.
StatusWriters ==
    [][/\ req'.op \in {"login", "list"} => store' = store
       /\ \A i \in 1..Len(store) :
             /\ i <= Len(store')
             /\ store'[i].status # store[i].status =>
                   /\ req'.op = "accept"
                   /\ store[i].student_id = req'.student_id
                   /\ store'[i].status = 2
       /\ Len(store') # Len(store) =>
             /\ req'.op = "submit"
             /\ Len(store') = Len(store) + 1
             /\ Len(submitted') = Len(store')
             /\ LET form == submitted'[Len(store')].form
                    current_date == submitted'[Len(store')].current_date
                    age == unwrap_or(calculate_age(form.dob, current_date), 0)
                IN store'[Len(store')].status =
                      calculate_eligibility(form.gpa, form.total_credits, age)]_vars

\* C9 witness: a list was answered while the table held an accepted row and
\* an eligible one.
ListedMixedStatuses ==
    /\ req.op = "list" /\ resp.code = 200
    /\ Len(store) = 2 /\ store[1].status = 2 /\ store[2].status = 0

\* C10: calculate_eligibility returns 1 when gpa <= 3.2 or credit_hours <= 12
\* or age <= 23 and 0 otherwise; a value on its threshold fails.
EligibilityRule ==
    (req.op = "calculate_eligibility" /\ resp.status = "returned") =>
        /\ resp.data = 1 <=> (req.gpa <= 320 \/ req.credit_hours <= 12 \/ req.age <= 23)
        /\ resp.data = 0 <=> (req.gpa > 320 /\ req.credit_hours > 12 /\ req.age > 23)
        /\ (req.gpa = 320 /\ req.credit_hours = 13 /\ req.age = 24) => resp.data = 1
        /\ (req.gpa = 330 /\ req.credit_hours = 13 /\ req.age = 24) => resp.data = 0
        /\ (req.gpa = 321 /\ req.credit_hours = 12 /\ req.age = 24) => resp.data = 1
        /\ (req.gpa = 321 /\ req.credit_hours = 13 /\ req.age = 23) => resp.data = 1

\* C10 witness: gpa 3.2 with 13 credits at age 24 was found Ineligible.
GpaOnThresholdIneligible ==
    /\ req.op = "calculate_eligibility" /\ resp.status = "returned"
    /\ req.gpa = 320 /\ req.credit_hours = 13 /\ req.age = 24
    /\ resp.data = 1

(***************************************************************************)
(* calculate_age as submit_form uses it, over birthdays, a leap day, the   *)
(* turn of the year and texts that are no date                             *)
(***************************************************************************)
ValidDobs ==
    {<<2000, 1, 15>>, <<2000, 2, 29>>, <<2000, 12, 31>>, <<2023, 6, 1>>,
     <<2024, 1, 15>>, <<2030, 1, 1>>}

BadDobs == {<<2001, 2, 29>>, <<2000, 13, 1>>, <<2000, 4, 31>>, <<2000, 1, 0>>, <<>>}

AgeDates ==
    {<<2023, 2, 28>>, <<2023, 3, 1>>, <<2024, 1, 14>>, <<2024, 1, 15>>,
     <<2024, 1, 16>>, <<2024, 2, 28>>, <<2024, 2, 29>>, <<2024, 12, 31>>,
     <<2025, 1, 1>>}

InitAge ==
    /\ store = <<>>
    /\ submitted = <<>>
    /\ req \in [op : {"calculate_age"}, dob : ValidDobs \cup BadDobs,
                current_date : AgeDates]
    /\ fault = "none"
    /\ resp = NoResponse

EvaluateAge ==
    /\ req.op = "calculate_age"
    /\ resp = NoResponse
    /\ resp' = Returned(unwrap_or(calculate_age(req.dob, req.current_date), 0))
    /\ UNCHANGED <<store, submitted, req, fault>>

NextAge == EvaluateAge

SpecAge == InitAge /\ [][NextAge]_vars

\* d is the day c or a day before it
NotAfter(d, c) ==
    \/ d[1] < c[1]
    \/ d[1] = c[1] /\ d[2] < c[2]
    \/ d[1] = c[1] /\ d[2] = c[2] /\ d[3] <= c[3]

\* C11: for a dob that names a day not after the current one, the age
\* submit uses is the difference of the years, less one when the current
\* month and day come before the birth month and day, and it is not
\* negative; for a dob that names no day it is 0.
AgeRule ==
    (req.op = "calculate_age" /\ resp.status = "returned") =>
        LET d == req.dob
            c == req.current_date
        IN /\ (d \in ValidDobs /\ NotAfter(d, c)) =>
                 /\ resp.data >= 0
                 /\ resp.data =
                       IF c[2] < d[2] \/ (c[2] = d[2] /\ c[3] < d[3])
                       THEN c[1] - d[1] - 1
                       ELSE c[1] - d[1]
           /\ d \in BadDobs => resp.data = 0

\* C11 witness: the day before the 24th birthday the age was 23.
DayBeforeBirthday ==
    /\ req.op = "calculate_age" /\ resp.status = "returned"
    /\ req.dob = <<2000, 1, 15>> /\ req.current_date = <<2024, 1, 14>>
    /\ resp.data = 23

\* C13: an accept leaves the number of rows as it is, changes at most the
\* status of the rows whose student_id it names and nothing of any other
\* row; and no step of any handler changes the student_id of a stored row.
AcceptFrame ==
    [][/\ req'.op = "accept" =>
             /\ Len(store') = Len(store)
             /\ \A i \in 1..Len(store) :
                   IF store[i].student_id = req'.student_id
                   THEN [store'[i] EXCEPT !.status = store[i].status] = store[i]
                   ELSE store'[i] = store[i]
       /\ \A i \in 1..Len(store) :
             /\ i <= Len(store')
             /\ store'[i].student_id = store[i].student_id]_vars

\* C13 witness: the first of two applicants was accepted and the second,
\* of another id, is not.
OneOfTwoAccepted ==
    /\ req.op = "accept" /\ fault = "none" /\ resp = AcceptOk
    /\ Len(store) = 2
    /\ store[1].student_id = req.student_id /\ store[1].status = 2
    /\ store[2].student_id # req.student_id /\ store[2].status # 2

\* C15: the payload of a successful login has the members email, status
\* and role and no other; each entry of a successful list has every column
\* of its row but password, with the row's values; a successful submit
\* carries the row id, and every other response carries no payload.
NoPasswordInPayload ==
    /\ (req.op = "login" /\ resp.code = 200) =>
          DOMAIN resp.data = {"email", "status", "role"}
    /\ (req.op = "list" /\ resp.code = 200) =>
          /\ Len(resp.data) = Len(store)
          /\ \A i \in 1..Len(store) :
                /\ DOMAIN resp.data[i] = (DOMAIN store[i]) \ {"password"}
                /\ \A column \in DOMAIN resp.data[i] :
                      resp.data[i][column] = store[i][column]
    /\ (req.op = "submit" /\ resp.code = 200) => resp.data = Len(store)
    /\ resp.code # 200 => resp.data = <<>>
    /\ (req.op = "accept" /\ resp.code = 200) => resp.data = <<>>

\* C15 witness: a login succeeded against a row that holds a password hash.
LoginPayloadWithoutHash ==
    /\ req.op = "login" /\ resp.code = 200
    /\ \E i \in 1..Len(store) :
          /\ store[i].email = req.email
          /\ store[i].password # None
          /\ resp.data.email = store[i].email

\* C16: a list whose SELECT runs succeeds with exactly one entry per stored
\* row, in rowid order, each with the row's student_id and the status the
\* row has now.
ListIsComplete ==
    (req.op = "list" /\ fault = "none") =>
        /\ resp.code = 200 /\ resp.status = "success"
        /\ Len(resp.data) = Len(store)
        /\ \A i \in 1..Len(store) :
              /\ resp.data[i].student_id = store[i].student_id
              /\ resp.data[i].status = store[i].status

\* C16 witness: the list shows the second applicant, accepted, with
\* status 2 after the first, who is not.
ListedAcceptedRow ==
    /\ req.op = "list" /\ resp.code = 200
    /\ Len(store) = 2 /\ store[1].status # 2 /\ store[2].status = 2
    /\ Len(resp.data) = 2 /\ resp.data[2].status = 2

\* C19: after every step each stored row has status 0, 1 or 2; the number
\* of rows never goes down; a successful submit adds exactly one row; a
\* login, a list, an accept and a failed submit add and remove none.
RowCountAndStatusRange ==
    [][/\ \A i \in 1..Len(store') : store'[i].status \in {0, 1, 2}
       /\ Len(store') >= Len(store)
       /\ (req'.op = "submit" /\ resp'.code = 200) => Len(store') = Len(store) + 1
       /\ (req'.op = "submit" /\ resp'.code # 200) => Len(store') = Len(store)
       /\ req'.op \in {"login", "list", "accept"} => Len(store') = Len(store)]_vars

\* C19 witness: a second form was stored as Eligible after an Ineligible one.
SecondRowAdded ==
    /\ req.op = "submit" /\ resp.code = 200 /\ resp.data = 2
    /\ Len(store) = 2 /\ store[1].status = 1 /\ store[2].status = 0

\* C20: a successful login for the email of a row whose status is 2 (which
\* it is, and stays, once an accept of its student_id has run) reports
\* status 2.
LoginReportsAccepted ==
    (req.op = "login" /\ resp.code = 200) =>
        \A i \in 1..Len(store) :
            (store[i].email = req.email /\ store[i].status = 2) =>
                resp.data.status = 2

\* C20 witness: the only applicant, stored as Ineligible and accepted
\* since, logged in and was told status 2.
IneligibleThenAcceptedLogsIn ==
    /\ req.op = "login" /\ resp.code = 200
    /\ Len(store) = 1 /\ store[1].status = 2
    /\ submitted[1].form.dob = <<>>
    /\ resp.data.status = 2

(***************************************************************************)
(* Submits with the password absent, empty or set, and the logins that     *)
(* follow them                                                             *)
(***************************************************************************)
CredForms ==
    [first_name : {"Ann"}, last_name : {"Lee"}, student_id : StudentIds,
     gender : {"F"}, dob : {<<2000, 1, 15>>}, college_year : {"Junior"},
     total_credits : {13}, phone_number : {"555"}, email : Emails,
     password : LoginPasswords, role : {1}, gpa : {330}]

InitCred ==
    /\ store = <<>>
    /\ submitted = <<>>
    /\ req = NoRequest
    /\ fault = "none"
    /\ resp = NoResponse

SubmitCred ==
    \E form \in CredForms, salt \in Salts, current_date \in Dates,
       f \in {"none", "hash", "db"} :
        submit_form(form, salt, current_date, f)

NextCred == SubmitCred \/ Login

SpecCred == InitCred /\ [][NextCred]_vars

\* C14: every stored row has a password, which is the bcrypt hash, under
\* some salt, of the submitted password (of the empty text when none was
\* submitted), and is not that password stored as received.
StoredPasswordIsHash ==
    \A i \in 1..Len(store) :
        LET plaintext == unwrap_or(submitted[i].form.password, "") IN
        /\ store[i].password # None
        /\ store[i].password[1] # PlainText(plaintext)
        /\ \E salt \in Salts : store[i].password[1] = hash(plaintext, salt)

\* C14 witness: a form with no password and one with the empty password
\* are both stored.
AbsentAndEmptyStored ==
    /\ req.op = "submit" /\ resp.code = 200
    /\ Len(store) = 2
    /\ submitted[1].form.password = None
    /\ submitted[2].form.password = Some("")

\* C17: a row submitted with no password holds the credential that the
\* same form with the empty password would have been given, and a login
\* that sends a password for the email of a row submitted with no password
\* or the empty one succeeds when that password is empty and is refused as
\* Unauthorized otherwise.
AbsentPasswordIsEmpty ==
    /\ \A i \in 1..Len(store) :
          submitted[i].form.password = None =>
              \E salt \in Salts :
                  store[i].password =
                      BuildRow([submitted[i].form EXCEPT !.password = Some("")],
                               salt, submitted[i].current_date).password
    /\ (req.op = "login" /\ fault = "none" /\ req.password # None) =>
          \A i \in 1..Len(store) :
              (store[i].email = req.email
                  /\ submitted[i].form.password \in {None, Some("")}) =>
                  IF req.password = Some("")
                  THEN resp.code = 200 /\ resp.data.email = req.email
                  ELSE resp = Unauthorized

\* C17 witness: a login with the empty password succeeds for an applicant
\* who submitted no password.
EmptyPasswordOpensAbsent ==
    /\ req.op = "login" /\ req.password = Some("") /\ resp.code = 200
    /\ \E i \in 1..Len(store) :
          store[i].email = req.email /\ submitted[i].form.password = None

\* C18: a submit that succeeds with a dob that is no date stores the row
\* with status 1, whatever its gpa and total_credits.
UnparsedDobIsIneligible ==
    (req.op = "submit" /\ resp.code = 200) =>
        LET form == submitted[Len(submitted)].form IN
        parse_from_str(form.dob) = None => store[Len(store)].status = 1

\* C18 witness: a form with a gpa above 3.2, more than 12 credits and a
\* dob that is no date is stored with status 1.
StrongFormBadDobStored ==
    /\ req.op = "submit" /\ resp.code = 200
    /\ submitted[Len(submitted)].form.dob = <<2000, 2, 30>>
    /\ submitted[Len(submitted)].form.gpa = 330
    /\ submitted[Len(submitted)].form.total_credits = 24
    /\ store[Len(store)].status = 1

(***************************************************************************)
(* The server handling requests concurrently.  Each request is a task of   *)
(* its own: it arrives, its handler awaits its statement on the pool, and  *)
(* it answers from what the statement returned.  SQLite runs a statement   *)
(* as one step; tasks interleave between their steps in any order.  Here   *)
(* req is the tuple of the tasks in arrival order and resp the tuple of    *)
(* their responses; the store is reachable and bcrypt works.               *)
(***************************************************************************)
ConcForms ==
    {form \in Forms : form.email = "ann@x" /\ form.password = Some("pw")
                      /\ form.dob # <<>>}

SubmitRequests ==
    {[op |-> "submit", form |-> form, salt |-> 1, current_date |-> d] :
        form \in ConcForms, d \in Dates}

LoginRequests == {[op |-> "login", email |-> "ann@x", password |-> Some("pw")]}

ListRequests == {[op |-> "list"]}

AcceptRequests == {[op |-> "accept", student_id |-> "S1"]}

\* a submit_form that stores the form and marks it in a second statement
StatementsSubmitInTwo(request) ==
    IF request.op = "submit"
    THEN <<[kind |-> "INSERT",
            row |-> BuildRow(request.form, request.salt, request.current_date)],
           [kind |-> "UPDATE", student_id |-> request.form.student_id]>>
    ELSE IF request.op = "login"
    THEN <<[kind |-> "SELECT_ONE", email |-> request.email]>>
    ELSE IF request.op = "list"
    THEN <<[kind |-> "SELECT_ALL"]>>
    ELSE <<[kind |-> "UPDATE", student_id |-> request.student_id]>>

\* the statements a handler sends to the store, in the order it awaits them
Statements(request) ==
    IF request.op = "submit"
    THEN <<[kind |-> "INSERT",
            row |-> BuildRow(request.form, request.salt, request.current_date)]>>
    ELSE IF request.op = "login"
    THEN <<[kind |-> "SELECT_ONE", email |-> request.email]>>
    ELSE IF request.op = "list"
    THEN <<[kind |-> "SELECT_ALL"]>>
    ELSE <<[kind |-> "UPDATE", student_id |-> request.student_id]>>

\* one statement run by the store: the rows after it and what it returns
Apply(rows, statement) ==
    IF statement.kind = "INSERT"
    THEN LET result == Insert(rows, statement.row) IN
         IF result.ok
         THEN [rows |-> result.val, result |-> Ok(last_insert_rowid(result.val))]
         ELSE [rows |-> rows, result |-> Err]
    ELSE IF statement.kind = "SELECT_ONE"
    THEN [rows |-> rows, result |-> Ok(FindByEmail(rows, statement.email))]
    ELSE IF statement.kind = "SELECT_ALL"
    THEN [rows |-> rows, result |-> Ok(ListAll(rows))]
    ELSE [rows |-> SetAccepted(rows, statement.student_id), result |-> Ok(<<>>)]

\* the response a handler builds from what its statement returned
Response(request, results) ==
    IF request.op = "submit"
    THEN IF results[1].ok THEN SubmitOk(results[1].val) ELSE SubmitFailed
    ELSE IF request.op = "login"
    THEN LoginReply(results[1].val, request.password)
    ELSE IF request.op = "list"
    THEN ListOk(results[1].val)
    ELSE AcceptOk

InitConc ==
    /\ store = <<>>
    /\ submitted = <<>>
    /\ req = <<>>
    /\ fault = "none"
    /\ resp = <<>>

NewTask(request) ==
    [request |-> request, pending |-> Statements(request), results |-> <<>>]

Arrive ==
    /\ Len(req) < NumTasks
    /\ \/ \E request \in SubmitRequests : req' = Append(req, NewTask(request))
       \/ \E request \in LoginRequests : req' = Append(req, NewTask(request))
       \/ \E request \in ListRequests : req' = Append(req, NewTask(request))
       \/ \E request \in AcceptRequests : req' = Append(req, NewTask(request))
    /\ resp' = Append(resp, NoResponse)
    /\ UNCHANGED <<store, submitted, fault>>

Execute ==
    \E i \in 1..Len(req) :
        /\ req[i].pending # <<>>
        /\ LET statement == Head(req[i].pending)
               out == Apply(store, statement)
           IN /\ store' = out.rows
              /\ req' = [req EXCEPT
                            ![i].pending = IF out.result.ok THEN Tail(@) ELSE <<>>,
                            ![i].results = Append(@, out.result)]
              /\ submitted' =
                    IF statement.kind = "INSERT" /\ out.result.ok
                    THEN Append(submitted,
                                [form |-> req[i].request.form,
                                 current_date |-> req[i].request.current_date])
                    ELSE submitted
        /\ UNCHANGED <<fault, resp>>

Respond ==
    \E i \in 1..Len(req) :
        /\ req[i].pending = <<>>
        /\ resp[i] = NoResponse
        /\ resp' = [resp EXCEPT ![i] = Response(req[i].request, req[i].results)]
        /\ UNCHANGED <<store, submitted, req, fault>>

NextConc == Arrive \/ Execute \/ Respond

SpecConc == InitConc /\ [][NextConc]_vars

\* a handler run alone, start to end, on the given rows
RECURSIVE Run(_, _, _)
Run(rows, statements, results) ==
    IF statements = <<>> THEN [rows |-> rows, results |-> results]
    ELSE LET out == Apply(rows, Head(statements)) IN
         Run(out.rows, IF out.result.ok THEN Tail(statements) ELSE <<>>,
             Append(results, out.result))

Handle(rows, request) ==
    LET ran == Run(rows, Statements(request), <<>>) IN
    [rows |-> ran.rows, resp |-> Response(request, ran.results)]

\* the tasks that have run their statements
Done == {i \in 1..Len(req) : req[i].pending = <<>>}

Orders(tasks) ==
    {order \in [1..Cardinality(tasks) -> tasks] :
        \A a, b \in 1..Cardinality(tasks) : order[a] = order[b] => a = b}

\* the rows after the first k handlers of the order have run one by one
RECURSIVE StoreAfter(_, _)
StoreAfter(order, k) ==
    IF k = 0 THEN <<>>
    ELSE Handle(StoreAfter(order, k - 1), req[order[k]].request).rows

\* the rows a submit that has arrived stores, as stored or as accepted since
WholeRows ==
    UNION {LET row == BuildRow(req[j].request.form, req[j].request.salt,
                               req[j].request.current_date)
           IN {row, [row EXCEPT !.status = 2]} :
           j \in {t \in 1..Len(req) : req[t].request.op = "submit"}}

\* C12: at every point of every interleaving the store and the responses
\* given so far are those of the handlers of the tasks that have run their
\* statement, run one at a time in some order; what a login's SELECT
\* returned is no row, and then the login answers Unauthorized, or the
\* columns of a whole row, with the hash and the computed status or 2; and
\* every entry a list's SELECT returned is such a whole row.
Serializable ==
    /\ \E order \in Orders(Done) :
          /\ StoreAfter(order, Cardinality(Done)) = store
          /\ \A k \in 1..Cardinality(Done) :
                \/ resp[order[k]] = NoResponse
                \/ resp[order[k]] =
                      Handle(StoreAfter(order, k - 1), req[order[k]].request).resp
    /\ \A i \in Done :
          /\ req[i].request.op = "login" =>
                LET found == req[i].results[1].val IN
                IF found = None
                THEN resp[i] = NoResponse \/ resp[i] = Unauthorized
                ELSE \E row \in WholeRows :
                        found = FindByEmail(<<row>>, req[i].request.email)
          /\ req[i].request.op = "list" =>
                LET listed == req[i].results[1].val IN
                \A n \in 1..Len(listed) :
                    \E row \in WholeRows : listed[n] = ToResponse(row)

\* C12 witness: a login that arrived after a submit of its email was
\* refused as Unauthorized while the submit's INSERT had not yet run.
LoginOvertookSubmit ==
    \E i, j \in 1..Len(req) :
        /\ i < j
        /\ req[i].request.op = "submit" /\ req[i].pending # <<>>
        /\ req[j].request.op = "login"
        /\ req[j].request.email = req[i].request.form.email
        /\ resp[j] = Unauthorized

====
